---- MODULE Spec2Model ----
(***************************************************************************)
(* Model of appBiseccion.py: the bisection run started by the button       *)
(* "Calcular Raiz".  Reals are exact dyadic rationals: a position or a     *)
(* width p stands for p / Scale, so every halving of the run is exact.     *)
(* Values of the user's function are tagged records, so that the special   *)
(* float results (nan, +/-inf), complex results and raised errors are      *)
(* distinct from finite reals.                                             *)
(***************************************************************************)
EXTENDS Integers, Sequences, FiniteSets, TLC

\* ---- bounds of the model ----
MaxIterBound == 3      \* max_iter ranges over 1..MaxIterBound
MaxEnd == 2            \* a, b range over the integers -MaxEnd..MaxEnd

RECURSIVE Pow2(_)
Pow2(n) == IF n = 0 THEN 1 ELSE 2 * Pow2(n - 1)

\* grid resolution: the real 1.0 is Scale units
Scale == Pow2(MaxIterBound)

\* ---- values a Python call can produce ----
Real(i) == [k |-> "real", v |-> i]
NaN == [k |-> "nan", v |-> 0]
PosInf == [k |-> "inf", v |-> 1]
NegInf == [k |-> "inf", v |-> -1]
Complex == [k |-> "complex", v |-> 0]
Raised == [k |-> "raise", v |-> 0]

\* outcomes of the compiled function at one point, for the generic expression;
\* the run only tests a value against 0 and the sign of a product of two
\* values, so one finite value of each sign stands for all of them
Raws == {Raised, Complex, NaN, PosInf, NegInf, Real(-1), Real(0), Real(1)}

\* expression texts: three concrete ones, one that does not parse, and
\* "any", an arbitrary function whose values are revealed when evaluated
Funciones == {"x - 1", "x", "x +* 1", "any"}

\* tolerances in grid units: 0, a tolerance at or below the resolution
\* (stands for 1e-9), 0.5 and 1.0
Tols == {0, 1, Scale \div 2, Scale}

VARIABLES funcion_str, a, b, tol, max_iter,
          tabla, f_a, f_b,
          iteraciones, rows, a_iter, b_iter, c, x_new, f_x_new,
          pc, estado

vars == <<funcion_str, a, b, tol, max_iter, tabla, f_a, f_b,
          iteraciones, rows, a_iter, b_iter, c, x_new, f_x_new, pc, estado>>

inputs == <<funcion_str, a, b, tol, max_iter>>
locals == <<iteraciones, rows, a_iter, b_iter, c, x_new, f_x_new>>

\* ---- float predicates and product ----
isnan(u) == u.k = "nan"
isinf(u) == u.k = "inf"
Sign(u) == IF u.v > 0 THEN 1 ELSE IF u.v < 0 THEN -1 ELSE 0

\* u * v on floats; f never returns a complex or raised operand
Mul(u, v) ==
    IF u.k = "real" /\ v.k = "real" THEN Real(u.v * v.v)
    ELSE IF u.k \in {"real", "inf"} /\ v.k \in {"real", "inf"}
         THEN IF Sign(u) * Sign(v) = 0 THEN NaN
              ELSE [k |-> "inf", v |-> Sign(u) * Sign(v)]
         ELSE NaN

\* u > 0, u < 0, u == 0: all False on nan
GtZero(u) == u.k \in {"real", "inf"} /\ u.v > 0
LtZero(u) == u.k \in {"real", "inf"} /\ u.v < 0
EqZero(u) == u.k = "real" /\ u.v = 0

\* ---- expression compiler ----
ParseOk(s) == s # "x +* 1"

\* the value table of the generic expression, extended at a point the run
\* evaluates for the first time
Reveal(tab, x_val, r) ==
    IF funcion_str # "any" \/ x_val \in DOMAIN tab THEN tab
    ELSE [p \in DOMAIN tab \cup {x_val} |-> IF p = x_val THEN r ELSE tab[p]]

f_lambda(tab, x_val) ==
    CASE funcion_str = "x - 1" -> Real(x_val - Scale)
      [] funcion_str = "x" -> Real(x_val)
      [] OTHER -> tab[x_val]

\* ---- guarded evaluator ----
f_noinf(tab, x_val) ==
    LET resultado == f_lambda(tab, x_val) IN
    IF resultado.k = "raise" THEN NaN
    ELSE IF resultado.k = "complex" \/ isnan(resultado)
         THEN NaN
         ELSE resultado

f(tab, x_val) ==
    LET resultado == f_lambda(tab, x_val) IN
    IF resultado.k = "raise" THEN NaN
    ELSE IF resultado.k = "complex" \/ isnan(resultado) \/ isinf(resultado)
         THEN NaN
         ELSE resultado

\* ---- bracket validation ----
CondicionInicial_ge(fa, fb) ==
    IF isnan(fa) \/ isnan(fb) THEN "undefined"
    ELSE IF GtZero(Mul(fa, fb)) \/ EqZero(Mul(fa, fb)) THEN "same sign"
    ELSE "ok"

CondicionInicial(fa, fb) ==
    IF isnan(fa) \/ isnan(fb) THEN "undefined"
    ELSE IF GtZero(Mul(fa, fb)) THEN "same sign"
    ELSE "ok"

\* ---- one pass of the loop ----
HalfWidth_sum(lo, hi) == (hi + lo) \div 2

HalfWidth(lo, hi) == (hi - lo) \div 2

Midpoint(lo, cc) == lo + cc

Guardar_always(rs, fx, row) == Append(rs, row)

Guardar(rs, fx, row) == IF isnan(fx) THEN rs ELSE Append(rs, row)

Parada_gt(fx, cc, n) ==
    IF isnan(fx) THEN "UndefinedHit"
    ELSE IF EqZero(fx) THEN "ExactHit"
    ELSE IF cc < tol THEN "ToleranceMet"
    ELSE IF n > max_iter THEN "MaxIterHit"
    ELSE "Running"

Parada_tolfirst(fx, cc, n) ==
    IF isnan(fx) THEN "UndefinedHit"
    ELSE IF cc < tol THEN "ToleranceMet"
    ELSE IF EqZero(fx) THEN "ExactHit"
    ELSE IF n >= max_iter THEN "MaxIterHit"
    ELSE "Running"

Parada_noexact(fx, cc, n) ==
    IF isnan(fx) THEN "UndefinedHit"
    ELSE IF cc < tol THEN "ToleranceMet"
    ELSE IF n >= max_iter THEN "MaxIterHit"
    ELSE "Running"

Parada_early(fx, cc, n) ==
    IF isnan(fx) THEN "UndefinedHit"
    ELSE IF EqZero(fx) THEN "ExactHit"
    ELSE IF cc < tol THEN "ToleranceMet"
    ELSE IF n + 1 >= max_iter THEN "MaxIterHit"
    ELSE "Running"

Parada(fx, cc, n) ==
    IF isnan(fx) THEN "UndefinedHit"
    ELSE IF EqZero(fx) THEN "ExactHit"
    ELSE IF cc < tol THEN "ToleranceMet"
    ELSE IF n >= max_iter THEN "MaxIterHit"
    ELSE "Running"

NuevoIntervalo(lo, hi, x_val, flo, fx) ==
    IF LtZero(Mul(flo, fx)) THEN <<lo, x_val>> ELSE <<x_val, hi>>

\* ---- state machine ----
Init ==
    /\ funcion_str \in Funciones
    /\ a \in {i * Scale : i \in -MaxEnd..MaxEnd}
    /\ b \in {i * Scale : i \in -MaxEnd..MaxEnd}
    /\ tol \in Tols
    /\ max_iter \in 1..MaxIterBound
    /\ tabla = [p \in {} |-> NaN]
    /\ f_a = NaN
    /\ f_b = NaN
    /\ iteraciones = 0
    /\ rows = <<>>
    /\ a_iter = a
    /\ b_iter = b
    /\ c = 0
    /\ x_new = 0
    /\ f_x_new = NaN
    /\ pc = "compile"
    /\ estado = "Running"

\* lines 62-71: sympify / lambdify, st.stop() on a syntax error
Compile ==
    /\ pc = "compile"
    /\ IF ParseOk(funcion_str)
       THEN pc' = "validate" /\ estado' = estado
       ELSE pc' = "done" /\ estado' = "ParseError"
    /\ UNCHANGED <<inputs, tabla, f_a, f_b, locals>>

\* lines 84-111: evaluate the endpoints, check the initial condition,
\* initialise the loop variables
Validate ==
    /\ pc = "validate"
    /\ \E ra \in Raws, rb \in Raws :
         LET tab1 == Reveal(tabla, a, ra)
             tab2 == Reveal(tab1, b, rb)
             fa == f(tab2, a)
             fb == f(tab2, b)
         IN /\ tabla' = tab2
            /\ f_a' = fa
            /\ f_b' = fb
            /\ IF CondicionInicial(fa, fb) = "ok"
               THEN pc' = "loop" /\ estado' = estado
               ELSE pc' = "done" /\ estado' = "InvalidBracket"
    /\ iteraciones' = 0
    /\ rows' = <<>>
    /\ a_iter' = a
    /\ b_iter' = b
    /\ UNCHANGED <<inputs, c, x_new, f_x_new>>

\* lines 117-154: one pass of the while loop
Iterate ==
    /\ pc = "loop"
    /\ \E r \in Raws :
         LET n == iteraciones + 1
             cc == HalfWidth(a_iter, b_iter)
             xx == Midpoint(a_iter, cc)
             tab == Reveal(tabla, xx, r)
             fx == f(tab, xx)
             row == [n |-> n, a |-> a_iter, b |-> b_iter, c |-> cc,
                     x |-> xx, fx |-> fx]
             est == Parada(fx, cc, n)
             nuevo == NuevoIntervalo(a_iter, b_iter, xx, f(tab, a_iter), fx)
         IN /\ iteraciones' = n
            /\ c' = cc
            /\ x_new' = xx
            /\ tabla' = tab
            /\ f_x_new' = fx
            /\ rows' = Guardar(rows, fx, row)
            /\ estado' = est
            /\ IF est = "Running"
               THEN /\ pc' = "loop"
                    /\ a_iter' = nuevo[1]
                    /\ b_iter' = nuevo[2]
               ELSE /\ pc' = "done"
                    /\ UNCHANGED <<a_iter, b_iter>>
    /\ UNCHANGED <<inputs, f_a, f_b>>

Next == Compile \/ Validate \/ Iterate

Spec == Init /\ [][Next]_vars

\* the script runs to completion once started: no step is ever postponed forever
FairSpec == Spec /\ WF_vars(Next)

\* ---- sanity of the encoding ----
TypeOK ==
    /\ pc \in {"compile", "validate", "loop", "done"}
    /\ estado \in {"Running", "ExactHit", "ToleranceMet", "MaxIterHit",
                   "UndefinedHit", "InvalidBracket", "ParseError"}
    /\ (pc = "done") = (estado # "Running")

\* every halving of the run is exact on the grid
ExactHalving == pc = "loop" => (b_iter - a_iter) % 2 = 0

\* ---- shorthands for the properties ----
Validated == pc \in {"loop", "done"} /\ estado # "ParseError"
LoopEnded == pc = "done" /\ estado \in {"ExactHit", "ToleranceMet", "MaxIterHit", "UndefinedHit"}
Defined(u) == u.k = "real"
BadBracket == isnan(f_a) \/ isnan(f_b) \/ GtZero(Mul(f_a, f_b))

\* C1: after validation, the run is InvalidBracket (counter 0, empty trace)
\* exactly when an endpoint value is UNDEFINED or f(a)*f(b) > 0; the loop is
\* entered, and records exist, only with both endpoint values defined and
\* f(a)*f(b) <= 0, and a bracket with a zero endpoint value is accepted.
C1_BracketGate ==
    /\ Validated => /\ f_a = f(tabla, a) /\ f_b = f(tabla, b)
                    /\ BadBracket <=> estado = "InvalidBracket"
    /\ estado = "InvalidBracket" => iteraciones = 0 /\ rows = <<>>
    /\ (pc = "loop" \/ iteraciones > 0 \/ rows # <<>>) =>
          /\ Defined(f_a) /\ Defined(f_b)
          /\ f_a.v * f_b.v <= 0

C1_Witness == estado = "InvalidBracket" /\ Defined(f_a) /\ Defined(f_b) /\ f_a.v * f_b.v > 0

\* C2: the iteration counter never exceeds max_iter, and a run that entered
\* the loop reaches one of the four terminal states of the loop.
C2_Termination ==
    /\ [](iteraciones <= max_iter)
    /\ (pc = "loop") ~> LoopEnded

C2_Witness == estado = "MaxIterHit" /\ iteraciones = max_iter /\ max_iter >= 2 /\ tol > 0

\* C3: at the start of every iteration the endpoint values of the current
\* bracket are both defined and f(a_iter)*f(b_iter) <= 0.
C3_SignChange ==
    pc = "loop" =>
        /\ Defined(f(tabla, a_iter)) /\ Defined(f(tabla, b_iter))
        /\ f(tabla, a_iter).v * f(tabla, b_iter).v <= 0

\* C4: the half-width of record n is (b - a) / 2^n, and at the start of
\* iteration n the bracket width is (b - a) / 2^(n-1).
C4_Width ==
    /\ \A i \in 1..Len(rows) : rows[i].c * Pow2(i) = b - a
    /\ pc = "loop" => (b_iter - a_iter) * Pow2(iteraciones) = b - a

C4_Witness == pc = "loop" /\ iteraciones = 2 /\ a_iter # a /\ b_iter # b

\* C5: a run stopped by an UNDEFINED midpoint value holds n-1 records, a run
\* stopped any other way holds n records; the records are numbered 1..N in
\* order with defined values, and a step only ever appends to the trace.
C5_Append ==
    /\ [](/\ estado = "UndefinedHit" => isnan(f_x_new) /\ Len(rows) = iteraciones - 1
          /\ estado \in {"ExactHit", "ToleranceMet", "MaxIterHit"} => Len(rows) = iteraciones
          /\ \A i \in 1..Len(rows) : rows[i].n = i /\ Defined(rows[i].fx))
    /\ [][Len(rows') >= Len(rows) /\ SubSeq(rows', 1, Len(rows)) = rows]_vars

C5_Witness == estado = "UndefinedHit" /\ iteraciones = 2 /\ Len(rows) = 1

\* C6 as stated: a valid bracket with (b - a) / 2^max_iter >= tol always ends
\* as MaxIterHit after exactly max_iter iterations with max_iter records.
C6_Original ==
    (LoopEnded /\ b - a >= tol * Pow2(max_iter)) =>
        estado = "MaxIterHit" /\ iteraciones = max_iter /\ Len(rows) = max_iter

\* C6 amended: a valid bracket with (b - a) / 2^max_iter >= tol whose run is
\* not stopped by a zero or UNDEFINED midpoint value ends as MaxIterHit after
\* exactly max_iter iterations with max_iter records; for f(x) = x - 1 on
\* [0, 2] with a tolerance below the resolution and max_iter = 2 the first
\* midpoint 1 is an exact root: ExactHit after 1 iteration.
C6_MaxIter ==
    /\ (LoopEnded /\ b - a >= tol * Pow2(max_iter) /\ estado \notin {"ExactHit", "UndefinedHit"}) =>
          estado = "MaxIterHit" /\ iteraciones = max_iter /\ Len(rows) = max_iter
    /\ (LoopEnded /\ funcion_str = "x - 1" /\ a = 0 /\ b = 2 * Scale /\ tol = 1 /\ max_iter = 2) =>
          estado = "ExactHit" /\ iteraciones = 1 /\ x_new = Scale /\ Len(rows) = 1

C6_Witness == estado = "MaxIterHit" /\ iteraciones = 2 /\ tol = 1 /\ a < b

\* C7: with tol = 0 no run ends in ToleranceMet.
C7_TolZero == tol = 0 => estado # "ToleranceMet"

\* C8: at every point evaluated, the guarded evaluator gives NaN when the
\* compiled function raises or returns complex, nan or +/-inf, gives the raw
\* value when it is a finite real, and never gives anything else; every value
\* stored in a record, and every accepted endpoint value, is a finite real.
C8_Sentinel ==
    /\ \A p \in DOMAIN tabla :
          /\ tabla[p].k \in {"raise", "complex", "nan", "inf"} => isnan(f(tabla, p))
          /\ tabla[p].k = "real" => f(tabla, p) = tabla[p]
          /\ f(tabla, p).k \in {"nan", "real"}
    /\ \A i \in 1..Len(rows) : Defined(rows[i].fx)
    /\ f_x_new.k \in {"nan", "real"}

C8_Witness ==
    /\ funcion_str = "any" /\ estado = "UndefinedHit" /\ Len(rows) >= 1
    /\ tabla[x_new].k = "inf"

\* C9: the stop checks are UNDEFINED, value == 0, halfWidth < tol,
\* n >= max_iter in this order: a zero last value always gives ExactHit;
\* ToleranceMet needs a nonzero last value and c < tol; MaxIterHit needs a
\* nonzero last value, c >= tol and n = max_iter; every earlier record has a
\* nonzero value and c >= tol.
C9_StopOrder ==
    /\ LoopEnded => (isnan(f_x_new) <=> estado = "UndefinedHit")
    /\ LoopEnded => (EqZero(f_x_new) <=> estado = "ExactHit")
    /\ estado = "ToleranceMet" => Defined(f_x_new) /\ f_x_new.v # 0 /\ c < tol
    /\ estado = "MaxIterHit" =>
          Defined(f_x_new) /\ f_x_new.v # 0 /\ c >= tol /\ iteraciones = max_iter
    /\ \A i \in 1..Len(rows) :
          (i < Len(rows) \/ pc = "loop" \/ estado = "UndefinedHit") =>
              rows[i].fx.v # 0 /\ rows[i].c >= tol /\ rows[i].n < max_iter

C9_Witness == estado = "ExactHit" /\ c < tol /\ iteraciones = max_iter /\ a < b

\* C10: a selection step whose product f(a_iter)*value is zero moves a_iter
\* to the midpoint, and has f(a_iter) = 0 with a nonzero value, with a_iter
\* still the supplied endpoint a (never moved) and f(a) = 0.
C10_TieBreak ==
    [][(pc = "loop" /\ pc' = "loop" /\ EqZero(Mul(f(tabla, a_iter), f_x_new'))) =>
          /\ a_iter' = x_new' /\ b_iter' = b_iter
          /\ EqZero(f(tabla, a_iter))
          /\ Defined(f_x_new') /\ f_x_new'.v # 0
          /\ a_iter = a /\ EqZero(f_a)
          /\ \A i \in 1..Len(rows) : rows[i].a = a]_vars

C10_Witness ==
    /\ pc = "loop" /\ Len(rows) >= 1 /\ EqZero(f_a)
    /\ rows[Len(rows)].a = a /\ a_iter = x_new /\ a_iter # a

====
